---- MODULE Spec2Model ----
(***************************************************************************)
(* SNIP20 token adapter (contractlib/snip20lib.py).                        *)
(*                                                                         *)
(* The adapter builds one JSON text per operation with json.dumps, hands   *)
(* it to secretlib.execute_contract or secretlib.query_contract, and       *)
(* returns the response or one nested field of it.  Python values are      *)
(* modelled as tagged records [t, v]; JSON texts are TLA+ strings built    *)
(* the way json.dumps builds them.                                         *)
(***************************************************************************)
EXTENDS Integers, Sequences, FiniteSets, TLC

VARIABLES
    self,        \* the attributes of the SNIP20 instance
    kwargs,      \* the keyword arguments the constructor was called with
    deployCalls, \* the calls made to Contract.__init__, in order
    backendLog,  \* the calls received by secretlib, in order, with their results
    calls        \* the operation invocations, in order, with their outcomes

vars == <<self, kwargs, deployCalls, backendLog, calls>>

\* Number of operation invocations explored after construction.
MaxCalls == 2

-----------------------------------------------------------------------------
(* Python values *)

PyStr(s) == [t |-> "str", v |-> s]
PyInt(n) == [t |-> "int", v |-> n]
PyBool(b) == [t |-> "bool", v |-> b]
PyList(xs) == [t |-> "list", v |-> xs]
\* A dict is its items in insertion order, each <<key, value>> with a str key.
PyDict(items) == [t |-> "dict", v |-> items]

\* The outcome of a call: a returned value or a raised exception.
Return(x) == [kind |-> "return", v |-> x]
Raise(e) == [kind |-> "raise", v |-> [t |-> "exception", v |-> e]]

\* An argument that is not passed is <<>>, one that is passed is <<value>>.
NoArg == <<>>
Arg(x) == <<x>>

Digit == <<"0", "1", "2", "3", "4", "5", "6", "7", "8", "9">>

RECURSIVE NatRepr(_)
NatRepr(n) == IF n < 10 THEN Digit[n + 1]
              ELSE NatRepr(n \div 10) \o Digit[(n % 10) + 1]

\* repr of a Python int: decimal digits, a leading "-" when negative.
IntRepr(n) == IF n < 0 THEN "-" \o NatRepr(-n) ELSE NatRepr(n)

\* str(x) as used on the amount: a str is returned as it is, an int in decimal.
Str(x) == CASE x.t = "str" -> x
            [] x.t = "int" -> PyStr(IntRepr(x.v))
            [] x.t = "bool" -> PyStr(IF x.v THEN "True" ELSE "False")

Q == "\""

RECURSIVE Dumps(_), DumpsItems(_), DumpsPairs(_)
\* json.dumps(x) with the default separators ", " and ": ".
Dumps(x) == CASE x.t = "str" -> Q \o x.v \o Q
              [] x.t = "int" -> IntRepr(x.v)
              [] x.t = "bool" -> (IF x.v THEN "true" ELSE "false")
              [] x.t = "list" -> "[" \o DumpsItems(x.v) \o "]"
              [] x.t = "dict" -> "{" \o DumpsPairs(x.v) \o "}"

DumpsItems(xs) == IF xs = <<>> THEN ""
                  ELSE IF Len(xs) = 1 THEN Dumps(xs[1])
                  ELSE Dumps(xs[1]) \o ", " \o DumpsItems(Tail(xs))

DumpsPairs(ps) == IF ps = <<>> THEN ""
                  ELSE IF Len(ps) = 1 THEN Q \o ps[1][1] \o Q \o ": " \o Dumps(ps[1][2])
                  ELSE Q \o ps[1][1] \o Q \o ": " \o Dumps(ps[1][2]) \o ", "
                       \o DumpsPairs(Tail(ps))

-----------------------------------------------------------------------------
(* secretlib and the base Contract, as the adapter sees them *)

\* secretlib.execute_contract(contract, msg, user, backend[, amount])
ExecuteContract(contract, msg, user, backend, amount) ==
    [fn |-> "execute_contract", contract |-> contract, msg |-> msg,
     user |-> Arg(user), backend |-> Arg(backend), amount |-> amount]

\* secretlib.query_contract(contract, msg)
QueryContract(contract, msg) ==
    [fn |-> "query_contract", contract |-> contract, msg |-> msg,
     user |-> NoArg, backend |-> NoArg, amount |-> NoArg]

\* One call received by secretlib together with what it answered.
Exchange(req, result) == [req |-> req, result |-> result]

\* One operation invocation together with its outcome.
Invocation(op, args, outcome) == [op |-> op, args |-> args, outcome |-> outcome]

BackendErrors == {"BackendError"}

\* Responses of execute_contract to a plain transaction.
TxResponses ==
    { PyDict(<< <<"txhash", PyStr("AB12")>>, <<"code", PyInt(0)>> >>) }

ExecResults == {Raise(e) : e \in BackendErrors} \cup {Return(r) : r \in TxResponses}

-----------------------------------------------------------------------------
(* Construction *)

ParamNames == {"label", "name", "symbol", "decimals", "seed", "public_total_supply",
               "enable_deposit", "enable_redeem", "enable_mint", "enable_burn",
               "contract", "admin", "uploader", "gas", "backend"}

\* The defaults of SNIP20.__init__ (label has none).
Defaults ==
    [name |-> PyStr("token"), symbol |-> PyStr("TKN"), decimals |-> PyInt(3),
     seed |-> PyStr("cGFzc3dvcmQ="), public_total_supply |-> PyBool(FALSE),
     enable_deposit |-> PyBool(FALSE), enable_redeem |-> PyBool(FALSE),
     enable_mint |-> PyBool(FALSE), enable_burn |-> PyBool(FALSE),
     contract |-> PyStr("snip20.wasm.gz"), admin |-> PyStr("a"),
     uploader |-> PyStr("a"), gas |-> PyStr("10000000"), backend |-> PyStr("test")]

\* The parameters of a constructor call: the given ones, else the defaults.
Bind(kw) == [p \in ParamNames |-> IF p \in DOMAIN kw THEN kw[p] ELSE Defaults[p]]

\* initMsg with the values of enable_mint and enable_burn exchanged.
initMsg_swapped(a) ==
    Dumps(PyDict(<<
        <<"name", a.name>>, <<"symbol", a.symbol>>, <<"decimals", a.decimals>>,
        <<"prng_seed", a.seed>>,
        <<"config", PyDict(<<
            <<"public_total_supply", a.public_total_supply>>,
            <<"enable_deposit", a.enable_deposit>>,
            <<"enable_redeem", a.enable_redeem>>,
            <<"enable_mint", a.enable_burn>>,
            <<"enable_burn", a.enable_mint>> >>)>> >>))

initMsg(a) ==
    Dumps(PyDict(<<
        <<"name", a.name>>, <<"symbol", a.symbol>>, <<"decimals", a.decimals>>,
        <<"prng_seed", a.seed>>,
        <<"config", PyDict(<<
            <<"public_total_supply", a.public_total_supply>>,
            <<"enable_deposit", a.enable_deposit>>,
            <<"enable_redeem", a.enable_redeem>>,
            <<"enable_mint", a.enable_mint>>,
            <<"enable_burn", a.enable_burn>> >>)>> >>))

\* super().__init__(contract, initMsg, label, admin, uploader, gas, backend)
ContractInitCall(a) ==
    [contract |-> a.contract, initMsg |-> initMsg(a), label |-> a.label,
     admin |-> a.admin, uploader |-> a.uploader, gas |-> a.gas, backend |-> a.backend]

\* Contract.__init__ deploys the contract and keeps what the operations read.
ContractInit(this, call, address) ==
    [this EXCEPT !.address = address, !.admin = call.admin, !.backend = call.backend]

\* The instance once  self.view_key = ""  has run, before the base constructor.
NewInstance == [view_key |-> PyStr(""), address |-> PyStr(""), admin |-> PyStr(""),
                backend |-> PyStr("")]

CtorKwargs ==
    { [label |-> PyStr("tok1")],
      [label |-> PyStr("tok2"), name |-> PyStr("shade"), symbol |-> PyStr("SHD"),
       decimals |-> PyInt(18), seed |-> PyStr("c2VlZA=="),
       public_total_supply |-> PyBool(TRUE), enable_redeem |-> PyBool(TRUE),
       enable_mint |-> PyBool(TRUE), admin |-> PyStr("b"), uploader |-> PyStr("c"),
       gas |-> PyStr("500"), backend |-> PyStr("os")] }

\* Addresses the deployment may report.
Addresses == {PyStr("secret1x"), PyStr("secret1y")}

SNIP20Init(kw, address) ==
    LET a == Bind(kw)
        call == ContractInitCall(a)
    IN  /\ kwargs = kw
        /\ deployCalls = <<[call |-> call, address |-> address]>>
        /\ self = ContractInit(NewInstance, call, address)
        /\ backendLog = <<>>
        /\ calls = <<>>

Init == \E kw \in CtorKwargs, address \in Addresses : SNIP20Init(kw, address)

-----------------------------------------------------------------------------
(* Operations *)

Accounts == {PyStr("a"), PyStr("b")}
Amounts == {PyInt(5), PyInt(100)}

\* Submit that sends the request a second time when the backend failed.
Submit_retry(op, args, req, result, outcome) ==
    /\ Len(calls) < MaxCalls
    /\ backendLog' = IF result.kind = "raise"
                     THEN backendLog \o <<Exchange(req, result), Exchange(req, result)>>
                     ELSE Append(backendLog, Exchange(req, result))
    /\ calls' = Append(calls, Invocation(op, args, outcome))
    /\ UNCHANGED <<self, kwargs, deployCalls>>

\* What every operation does with the two logs: one exchange, one outcome.
Submit(op, args, req, result, outcome) ==
    /\ Len(calls) < MaxCalls
    /\ backendLog' = Append(backendLog, Exchange(req, result))
    /\ calls' = Append(calls, Invocation(op, args, outcome))
    /\ UNCHANGED <<self, kwargs, deployCalls>>

\* mint_msg with the amount left a number.
mint_msg_number(recipient, amount) ==
    Dumps(PyDict(<< <<"mint", PyDict(<< <<"recipient", recipient>>,
                                        <<"amount", amount>> >>)>> >>))

mint_msg(recipient, amount) ==
    Dumps(PyDict(<< <<"mint", PyDict(<< <<"recipient", recipient>>,
                                        <<"amount", Str(amount)>> >>)>> >>))

mint_request(recipient, amount) ==
    ExecuteContract(self.address, mint_msg(recipient, amount), self.admin,
                    self.backend, NoArg)

mint(recipient, amount, result) ==
    Submit("mint", <<recipient, amount>>, mint_request(recipient, amount), result,
           result)

\* x[k] for a str key k, x the value of the outcome o: only a dict holding k
\* has it.  An exception raised while x was evaluated goes on unchanged.
GetItem(o, k) ==
    LET x == o.v
    IN  IF o.kind = "raise" THEN o
        ELSE IF x.t /= "dict" THEN Raise("TypeError")
        ELSE IF \E i \in 1..Len(x.v) : x.v[i][1] = k
             THEN Return(x.v[CHOOSE i \in 1..Len(x.v) : x.v[i][1] = k][2])
             ELSE Raise("KeyError")

\* The payloads of create_viewing_key the backend may put in output_data_as_string.
ViewKeys == {"api_key_1"}

JsonDocs ==
    { PyDict(<< <<"create_viewing_key", PyDict(<< <<"key", PyStr(k)>> >>)>> >>) :
          k \in ViewKeys }
    \cup { PyDict(<< <<"create_viewing_key", PyDict(<<>>)>> >>),
           PyDict(<< <<"set_viewing_key", PyDict(<< <<"status", PyStr("success")>> >>)>> >>) }

\* json.loads(x), x the value of the outcome o: the document whose text x is;
\* a text that is the text of no document is not JSON.
JsonLoads(o) ==
    LET x == o.v
    IN  IF o.kind = "raise" THEN o
        ELSE IF x.t /= "str" THEN Raise("TypeError")
        ELSE IF \E d \in JsonDocs : Dumps(d) = x.v
             THEN Return(CHOOSE d \in JsonDocs : Dumps(d) = x.v)
             ELSE Raise("JSONDecodeError")

\* Responses of execute_contract to create_viewing_key.
ViewKeyResponses ==
    { PyDict(<< <<"output_data_as_string", PyStr(Dumps(d))>> >>) : d \in JsonDocs }
    \cup { PyDict(<< <<"output_data_as_string", PyStr("out of gas")>> >>),
           PyDict(<< <<"txhash", PyStr("AB12")>>, <<"code", PyInt(0)>> >>) }

ViewKeyResults ==
    {Raise(e) : e \in BackendErrors} \cup {Return(r) : r \in ViewKeyResponses}

\* Responses of query_contract to balance.
BalanceResponses ==
    { PyDict(<< <<"balance", PyDict(<< <<"amount", PyStr("100")>> >>)>> >>),
      PyDict(<< <<"balance", PyDict(<<>>)>> >>),
      PyDict(<< <<"viewing_key_error",
                  PyDict(<< <<"msg", PyStr("Wrong viewing key")>> >>)>> >>) }

QueryResults ==
    {Raise(e) : e \in BackendErrors} \cup {Return(r) : r \in BalanceResponses}

AccountLists == { <<>>, <<PyStr("b"), PyStr("a")>>, <<PyStr("b"), PyStr("b")>> }
Entropies == {PyStr("e1")}
Passwords == {PyStr("pw")}

\* set_minters_msg with a repeated account dropped.
set_minters_msg_dedup(accounts) ==
    LET xs == accounts.v
        uniq == IF Len(xs) = 2 /\ xs[1] = xs[2] THEN <<xs[1]>> ELSE xs
    IN  Dumps(PyDict(<< <<"set_minters", PyDict(<< <<"minters", PyList(uniq)>> >>)>> >>))

set_minters_msg(accounts) ==
    Dumps(PyDict(<< <<"set_minters", PyDict(<< <<"minters", accounts>> >>)>> >>))

set_minters_request(accounts) ==
    ExecuteContract(self.address, set_minters_msg(accounts), self.admin,
                    self.backend, NoArg)

set_minters_return(result) == result

set_minters(accounts, result) ==
    Submit("set_minters", <<accounts>>, set_minters_request(accounts), result,
           set_minters_return(result))

deposit_msg == Dumps(PyDict(<< <<"deposit", PyDict(<<>>)>> >>))

\* deposit_request with the amount converted to a str like the token amounts.
deposit_request_str(account, amount) ==
    ExecuteContract(self.address, deposit_msg, account, self.backend, Arg(Str(amount)))

deposit_request(account, amount) ==
    ExecuteContract(self.address, deposit_msg, account, self.backend, Arg(amount))

deposit(account, amount, result) ==
    Submit("deposit", <<account, amount>>, deposit_request(account, amount), result,
           result)

send_msg(recipient, amount) ==
    Dumps(PyDict(<< <<"send", PyDict(<< <<"recipient", recipient>>,
                                        <<"amount", Str(amount)>> >>)>> >>))

\* send_request signed by the admin, as mint is.
send_request_admin(account, recipient, amount) ==
    ExecuteContract(self.address, send_msg(recipient, amount), self.admin,
                    self.backend, NoArg)

send_request(account, recipient, amount) ==
    ExecuteContract(self.address, send_msg(recipient, amount), account,
                    self.backend, NoArg)

send(account, recipient, amount, result) ==
    Submit("send", <<account, recipient, amount>>,
           send_request(account, recipient, amount), result, result)

set_view_key_msg(entropy) ==
    Dumps(PyDict(<< <<"create_viewing_key", PyDict(<< <<"entropy", entropy>> >>)>> >>))

set_view_key_request(account, entropy) ==
    ExecuteContract(self.address, set_view_key_msg(entropy), account,
                    self.backend, NoArg)

\* set_view_key_return that yields an empty key where the response has none.
set_view_key_return_default(result) ==
    LET data == JsonLoads(GetItem(result, "output_data_as_string"))
        found == GetItem(GetItem(data, "create_viewing_key"), "key")
    IN  IF result.kind = "return" /\ found.kind = "raise" THEN Return(PyStr(""))
        ELSE found

\* json.loads(result["output_data_as_string"])["create_viewing_key"]["key"]
set_view_key_return(result) ==
    LET data == JsonLoads(GetItem(result, "output_data_as_string"))
    IN  GetItem(GetItem(data, "create_viewing_key"), "key")

\* set_view_key that also keeps the key it returns in self.view_key.
set_view_key_storing(account, entropy, result) ==
    LET outcome == set_view_key_return(result)
    IN  /\ Len(calls) < MaxCalls
        /\ backendLog' = Append(backendLog,
                                Exchange(set_view_key_request(account, entropy), result))
        /\ calls' = Append(calls, Invocation("set_view_key", <<account, entropy>>, outcome))
        /\ self' = IF outcome.kind = "return"
                   THEN [self EXCEPT !.view_key = outcome.v] ELSE self
        /\ UNCHANGED <<kwargs, deployCalls>>

set_view_key(account, entropy, result) ==
    Submit("set_view_key", <<account, entropy>>,
           set_view_key_request(account, entropy), result,
           set_view_key_return(result))

\* get_balance_msg with the two values exchanged.
get_balance_msg_swapped(address, password) ==
    Dumps(PyDict(<< <<"balance", PyDict(<< <<"key", address>>,
                                           <<"address", password>> >>)>> >>))

\* get_balance_msg that prefers the key the last set_view_key returned.
get_balance_msg_stale(address, password) ==
    LET made == {i \in 1..Len(calls) : /\ calls[i].op = "set_view_key"
                                       /\ calls[i].outcome.kind = "return"}
        key == IF made = {} THEN password
               ELSE calls[CHOOSE i \in made : \A j \in made : j <= i].outcome.v
    IN  Dumps(PyDict(<< <<"balance", PyDict(<< <<"key", key>>,
                                               <<"address", address>> >>)>> >>))

get_balance_msg(address, password) ==
    Dumps(PyDict(<< <<"balance", PyDict(<< <<"key", password>>,
                                           <<"address", address>> >>)>> >>))

get_balance_request(address, password) ==
    QueryContract(self.address, get_balance_msg(address, password))

\* result["balance"]["amount"]
get_balance_return(result) == GetItem(GetItem(result, "balance"), "amount")

get_balance(address, password, result) ==
    Submit("get_balance", <<address, password>>,
           get_balance_request(address, password), result,
           get_balance_return(result))

Next ==
    \/ \E accounts \in AccountLists, result \in ExecResults :
          set_minters(PyList(accounts), result)
    \/ \E account \in Accounts, amount \in Amounts, result \in ExecResults :
          deposit(account, amount, result)
    \/ \E recipient \in Accounts, amount \in Amounts, result \in ExecResults :
          mint(recipient, amount, result)
    \/ \E account \in Accounts, recipient \in Accounts, amount \in Amounts,
          result \in ExecResults :
          send(account, recipient, amount, result)
    \/ \E account \in Accounts, entropy \in Entropies, result \in ViewKeyResults :
          set_view_key(account, entropy, result)
    \/ \E address \in Accounts, password \in Passwords, result \in QueryResults :
          get_balance(address, password, result)

Spec == Init /\ [][Next]_vars

-----------------------------------------------------------------------------
(* What the claims are stated with.  The texts below are written out as the *)
(* JSON the backend must receive, not derived from Dumps.                   *)

\* The decimal numeral of the numbers that occur as amounts and decimals.
DecimalText(n) == CASE n = 0 -> "0" [] n = 3 -> "3" [] n = 5 -> "5"
                    [] n = 18 -> "18" [] n = 100 -> "100"

BoolText(b) == IF b THEN "true" ELSE "false"

\* The JSON array of a list of at most two account names.
ListText(xs) == CASE Len(xs) = 0 -> "[]"
                  [] Len(xs) = 1 -> "[\"" \o xs[1].v \o "\"]"
                  [] Len(xs) = 2 -> "[\"" \o xs[1].v \o "\", \"" \o xs[2].v \o "\"]"

\* The message the invocation c must submit.
ExpectedMsg(c) ==
    CASE c.op = "set_minters" ->
           "{\"set_minters\": {\"minters\": " \o ListText(c.args[1].v) \o "}}"
      [] c.op = "deposit" -> "{\"deposit\": {}}"
      [] c.op = "mint" ->
           "{\"mint\": {\"recipient\": \"" \o c.args[1].v \o "\", \"amount\": \""
               \o DecimalText(c.args[2].v) \o "\"}}"
      [] c.op = "send" ->
           "{\"send\": {\"recipient\": \"" \o c.args[2].v \o "\", \"amount\": \""
               \o DecimalText(c.args[3].v) \o "\"}}"
      [] c.op = "set_view_key" ->
           "{\"create_viewing_key\": {\"entropy\": \"" \o c.args[2].v \o "\"}}"
      [] c.op = "get_balance" ->
           "{\"balance\": {\"key\": \"" \o c.args[2].v \o "\", \"address\": \""
               \o c.args[1].v \o "\"}}"

\* The values the instance was constructed with.
CtorAddress == deployCalls[1].address
CtorAdmin == IF "admin" \in DOMAIN kwargs THEN kwargs.admin ELSE PyStr("a")
CtorBackend == IF "backend" \in DOMAIN kwargs THEN kwargs.backend ELSE PyStr("test")

\* The signer the invocation c must be submitted with (none for a query).
ExpectedUser(c) ==
    CASE c.op \in {"set_minters", "mint"} -> <<CtorAdmin>>
      [] c.op \in {"deposit", "send", "set_view_key"} -> <<c.args[1]>>
      [] c.op = "get_balance" -> <<>>

ExpectedRequest(c) ==
    [fn |-> IF c.op = "get_balance" THEN "query_contract" ELSE "execute_contract",
     contract |-> CtorAddress,
     msg |-> ExpectedMsg(c),
     user |-> ExpectedUser(c),
     backend |-> IF c.op = "get_balance" THEN <<>> ELSE <<CtorBackend>>,
     amount |-> IF c.op = "deposit" THEN <<c.args[2]>> ELSE <<>>]

Calls(op) == {i \in 1..Len(calls) : calls[i].op = op}

OneRequestPerCall == Len(backendLog) = Len(calls)

\* C1: every mint submits exactly one execute request to the token's address
\* whose message is {"mint": {"recipient": recipient, "amount": s}} with s the
\* decimal string of the amount (quoted, never a number), signed by the
\* instance's admin account.
C1_MintRequest ==
    /\ OneRequestPerCall
    /\ \A i \in Calls("mint") :
         LET req == backendLog[i].req
         IN  /\ req.fn = "execute_contract"
             /\ req.contract = self.address
             /\ req.msg = ExpectedMsg(calls[i])
             /\ req.user = <<self.admin>>

\* A mint of 100 to a recipient that is not the admin has been submitted.
C1_Witness ==
    \E i \in Calls("mint") :
        /\ calls[i].args[1] /= self.admin
        /\ calls[i].args[2] = PyInt(100)
        /\ backendLog[i].req.msg = "{\"mint\": {\"recipient\": \""
               \o calls[i].args[1].v \o "\", \"amount\": \"100\"}}"

\* C2: every send submits exactly one execute request signed by the source
\* account, whose message is {"send": {"recipient": recipient, "amount": s}}
\* and nothing else: the source account is no field of the message.
C2_SendRequest ==
    /\ OneRequestPerCall
    /\ \A i \in Calls("send") :
         LET req == backendLog[i].req
         IN  /\ req.fn = "execute_contract"
             /\ req.msg = ExpectedMsg(calls[i])
             /\ req.user = <<calls[i].args[1]>>

\* A send of 5 from an account that is neither the admin nor the recipient.
C2_Witness ==
    \E i \in Calls("send") :
        /\ calls[i].args[1] /= self.admin
        /\ calls[i].args[1] /= calls[i].args[2]
        /\ calls[i].args[3] = PyInt(5)

\* C3: every deposit submits one execute request signed by the account, with
\* the message {"deposit": {}} and the amount, unconverted, as the transaction
\* value; no other operation passes a transaction value.
C3_DepositRequest ==
    /\ OneRequestPerCall
    /\ \A i \in 1..Len(calls) :
         LET req == backendLog[i].req
         IN  IF calls[i].op = "deposit"
             THEN /\ req.fn = "execute_contract"
                  /\ req.msg = "{\"deposit\": {}}"
                  /\ req.user = <<calls[i].args[1]>>
                  /\ req.amount = <<calls[i].args[2]>>
             ELSE req.amount = <<>>

\* A deposit of 100 and an operation other than deposit have been submitted.
C3_Witness ==
    /\ \E i \in Calls("deposit") : calls[i].args[2] = PyInt(100)
    /\ \E j \in 1..Len(calls) : calls[j].op /= "deposit"

\* The response that carries the viewing key k.
KeyResponse(k) ==
    PyDict(<< <<"output_data_as_string",
                PyStr("{\"create_viewing_key\": {\"key\": \"" \o k \o "\"}}")>> >>)

\* C4: every set_view_key submits one execute request
\* {"create_viewing_key": {"entropy": entropy}} signed by the account; it
\* returns the key of a response that carries one, and ends in an error, with
\* no key returned, for every other response.
C4_SetViewKey ==
    /\ OneRequestPerCall
    /\ \A i \in Calls("set_view_key") :
         LET req == backendLog[i].req
             result == backendLog[i].result
         IN  /\ req.fn = "execute_contract"
             /\ req.msg = ExpectedMsg(calls[i])
             /\ req.user = <<calls[i].args[1]>>
             /\ IF \E k \in ViewKeys : result = Return(KeyResponse(k))
                THEN \E k \in ViewKeys : /\ result = Return(KeyResponse(k))
                                         /\ calls[i].outcome = Return(PyStr(k))
                ELSE calls[i].outcome.kind = "raise"

\* One set_view_key returned its key and another met a response without one.
C4_Witness ==
    /\ \E i \in Calls("set_view_key") : calls[i].outcome = Return(PyStr("api_key_1"))
    /\ \E j \in Calls("set_view_key") :
          /\ backendLog[j].result.kind = "return"
          /\ calls[j].outcome.kind = "raise"

\* The response that carries the balance a.
BalanceResponse(a) == PyDict(<< <<"balance", PyDict(<< <<"amount", PyStr(a)>> >>)>> >>)

\* C5: every get_balance issues exactly one query (no signer, no transaction
\* value) with the message {"balance": {"key": password, "address": address}},
\* returns balance.amount of the response unchanged, and ends in an error for
\* every response without balance.amount.
C5_GetBalance ==
    /\ OneRequestPerCall
    /\ \A i \in Calls("get_balance") :
         LET req == backendLog[i].req
             result == backendLog[i].result
         IN  /\ req.fn = "query_contract"
             /\ req.user = <<>>
             /\ req.amount = <<>>
             /\ req.msg = ExpectedMsg(calls[i])
             /\ IF result = Return(BalanceResponse("100"))
                THEN calls[i].outcome = Return(PyStr("100"))
                ELSE calls[i].outcome.kind = "raise"

\* One get_balance returned a balance and another met a viewing-key error.
C5_Witness ==
    /\ \E i \in Calls("get_balance") :
          /\ calls[i].args[1] /= calls[i].args[2]
          /\ calls[i].outcome = Return(PyStr("100"))
    /\ \E j \in Calls("get_balance") :
          /\ backendLog[j].result.kind = "return"
          /\ calls[j].outcome.kind = "raise"

\* C6: every set_minters submits one execute request
\* {"set_minters": {"minters": accounts}} with the list as given (empty,
\* duplicated, in the caller's order), signed by the admin, and returns the
\* backend's response unchanged.
C6_SetMinters ==
    /\ OneRequestPerCall
    /\ \A i \in Calls("set_minters") :
         LET req == backendLog[i].req
         IN  /\ req.fn = "execute_contract"
             /\ req.msg = ExpectedMsg(calls[i])
             /\ req.user = <<self.admin>>
             /\ calls[i].outcome = backendLog[i].result

\* set_minters was given the empty list and a list with a duplicate, and
\* returned a response.
C6_Witness ==
    /\ \E i \in Calls("set_minters") : calls[i].args[1] = PyList(<<>>)
    /\ \E j \in Calls("set_minters") :
          /\ calls[j].args[1] = PyList(<<PyStr("b"), PyStr("b")>>)
          /\ calls[j].outcome.kind = "return"

\* C7: after n invocations the backend has received exactly n requests, the
\* i-th being the one of the i-th invocation, and a failure of the backend is
\* the outcome of the invocation, the same error, never a returned value.
C7_OneCallNoRetry ==
    /\ Len(backendLog) = Len(calls)
    /\ \A i \in 1..Len(calls) :
         /\ backendLog[i].req.msg = ExpectedMsg(calls[i])
         /\ backendLog[i].result.kind = "raise" => calls[i].outcome = backendLog[i].result

\* Two invocations, the first of which met a backend failure.
C7_Witness ==
    /\ Len(calls) = 2
    /\ backendLog[1].result = Raise("BackendError")
    /\ calls[1].op /= calls[2].op

\* The attributes keep their construction-time values.
AttributesFrozen ==
    /\ self.view_key = PyStr("")
    /\ self.address = CtorAddress
    /\ self.admin = CtorAdmin
    /\ self.backend = CtorBackend

\* C8 as stated: no operation changes an attribute, and every request targets
\* the instance's contract address and backend.
C8_AsStated ==
    /\ AttributesFrozen
    /\ \A i \in 1..Len(backendLog) :
         /\ backendLog[i].req.contract = self.address
         /\ backendLog[i].req.backend = <<self.backend>>

\* C8 amended: no operation changes an attribute (view_key stays "" after a
\* successful set_view_key); every request targets the instance's contract
\* address, every execute request carries the instance's backend, and the
\* query of get_balance carries no backend.
C8_Frame ==
    /\ AttributesFrozen
    /\ \A i \in 1..Len(backendLog) :
         LET req == backendLog[i].req
         IN  /\ req.contract = self.address
             /\ req.fn = "execute_contract" => req.backend = <<self.backend>>
             /\ req.fn = "query_contract" => req.backend = <<>>

\* A set_view_key has returned a key and a get_balance has been issued.
C8_Witness ==
    /\ \E i \in Calls("set_view_key") : calls[i].outcome = Return(PyStr("api_key_1"))
    /\ Calls("get_balance") /= {}

\* C9: construction makes exactly one call to the base constructor; its
\* payload has exactly name, symbol, decimals, prng_seed and config, config
\* exactly the five flags, each the constructor's argument or its default;
\* gas, backend, label, admin and uploader go beside the payload.
C9_Construction ==
    LET given(p, d) == IF p \in DOMAIN kwargs THEN kwargs[p] ELSE d
        flag(p) == BoolText(given(p, PyBool(FALSE)).v)
        call == deployCalls[1].call
    IN  /\ Len(deployCalls) = 1
        /\ call.initMsg =
              "{\"name\": \"" \o given("name", PyStr("token")).v
              \o "\", \"symbol\": \"" \o given("symbol", PyStr("TKN")).v
              \o "\", \"decimals\": " \o DecimalText(given("decimals", PyInt(3)).v)
              \o ", \"prng_seed\": \"" \o given("seed", PyStr("cGFzc3dvcmQ=")).v
              \o "\", \"config\": {\"public_total_supply\": " \o flag("public_total_supply")
              \o ", \"enable_deposit\": " \o flag("enable_deposit")
              \o ", \"enable_redeem\": " \o flag("enable_redeem")
              \o ", \"enable_mint\": " \o flag("enable_mint")
              \o ", \"enable_burn\": " \o flag("enable_burn") \o "}}"
        /\ DOMAIN kwargs = {"label"} =>
              call.initMsg = "{\"name\": \"token\", \"symbol\": \"TKN\", \"decimals\": 3, "
                  \o "\"prng_seed\": \"cGFzc3dvcmQ=\", \"config\": {"
                  \o "\"public_total_supply\": false, \"enable_deposit\": false, "
                  \o "\"enable_redeem\": false, \"enable_mint\": false, "
                  \o "\"enable_burn\": false}}"
        /\ call.label = kwargs.label
        /\ call.gas = given("gas", PyStr("10000000"))
        /\ call.backend = given("backend", PyStr("test"))
        /\ call.admin = given("admin", PyStr("a"))
        /\ call.uploader = given("uploader", PyStr("a"))
        /\ call.contract = given("contract", PyStr("snip20.wasm.gz"))

\* An instance constructed with mint enabled and burn left disabled, after
\* operations have run on it.
C9_Witness ==
    /\ "enable_mint" \in DOMAIN kwargs
    /\ kwargs.enable_mint = PyBool(TRUE)
    /\ "enable_burn" \notin DOMAIN kwargs
    /\ Len(calls) = MaxCalls

\* C10: the request of an invocation is a function of its arguments and of the
\* construction-time address, admin and backend: it is ExpectedRequest of the
\* invocation whatever came before, and two invocations with the same
\* arguments emit the same request.
C10_RequestDependsOnArgsOnly ==
    /\ Len(backendLog) = Len(calls)
    /\ \A i \in 1..Len(calls) : backendLog[i].req = ExpectedRequest(calls[i])
    /\ \A i, j \in 1..Len(calls) :
         (calls[i].op = calls[j].op /\ calls[i].args = calls[j].args)
             => backendLog[i].req = backendLog[j].req

\* A get_balance with a password of the caller's, after a set_view_key that
\* returned another key.
C10_Witness ==
    /\ Len(calls) = 2
    /\ calls[1].op = "set_view_key"
    /\ calls[1].outcome = Return(PyStr("api_key_1"))
    /\ calls[2].op = "get_balance"
    /\ calls[2].args[2] = PyStr("pw")

====
